---- MODULE Spec2Model ----
(***************************************************************************)
(* Model of src/iters.rs of faster: cursors that walk a scalar buffer one  *)
(* SIMD vector at a time (SIMDIter, SIMDRefIter, SIMDRefMutIter), the      *)
(* right-aligned partial tail, and the whole-stream drains built on them.  *)
(*                                                                         *)
(* Buffers and vectors are sequences; the source's 0-based index i is      *)
(* element i+1 of the sequence (At, Lane).  usize arithmetic is kept:      *)
(* a subtraction below zero panics when overflow checks are on (debug      *)
(* build) and wraps otherwise (release build).                             *)
(***************************************************************************)
EXTENDS Integers, Sequences, FiniteSets, TLC

\* ---------------------------------------------------------------- bounds
\* Lanes of one vector (Packed::WIDTH of the platform the crate is built for).
WIDTH == 2
\* Longest backing buffer explored.
MaxLen == 5
\* How many times the scalar next() may be called past the end of the buffer.
MaxOver == 2

\* Scalar values of buffer elements.
Vals == {1, 2}
\* The modelled usize has 16 bits; only "wrapped below zero" matters.
USIZE == 2^16

\* ------------------------------------------------- vectors (vecs::Packed)
Lanes == 0 .. (WIDTH - 1)
At(buf, i) == buf[i + 1]
Lane(v, i) == v[i + 1]
splat(x) == [i \in 1 .. WIDTH |-> x]
\* Vector::default(): every lane zero.
VectorDefault == splat(0)
\* A padding vector whose lanes are all different and differ from all data.
LaneDefault == [i \in 1 .. WIDTH |-> 0 - i]
Defaults == {VectorDefault, LaneDefault}
NoVec == << >>

\* Checked load: offset + WIDTH must not pass the end of the buffer.
load_ok(buf, offset) == offset + WIDTH <= Len(buf)
load(buf, offset) == [i \in 1 .. WIDTH |-> buf[offset + i]]
\* Unchecked load: a lane past the end of the buffer holds whatever memory
\* holds there (Stray); the caller has to keep offset + WIDTH <= len.
Stray == 0 - 99
load_unchecked(buf, offset) ==
    [i \in 1 .. WIDTH |-> IF offset + i <= Len(buf) THEN buf[offset + i] ELSE Stray]
\* Checked store of the WIDTH lanes of v at offset.
store_ok(buf, offset) == offset + WIDTH <= Len(buf)
store(v, buf, offset) ==
    [k \in 1 .. Len(buf) |->
        IF k > offset /\ k <= offset + WIDTH THEN v[k - offset] ELSE buf[k]]
\* self.merge_partitioned(other, n): lanes 0..n of self, the rest of other.
merge_partitioned(self, other, n) ==
    [i \in 1 .. WIDTH |-> IF i - 1 < n THEN self[i] ELSE other[i]]
replace(v, i, x) == [v EXCEPT ![i + 1] = x]
extract(v, i) == v[i + 1]

\* usize subtraction: the wrapped result, and whether it went below zero.
usize_sub(a, b) == IF a >= b THEN a - b ELSE a - b + USIZE
underflows(a, b) == a < b

\* ------------------------------------------------------------------ state
VARIABLES
    kind,             \* "SIMDIter" | "SIMDRefIter" | "SIMDRefMutIter"
    overflow_checks,  \* TRUE: debug build, arithmetic overflow panics
    data,             \* the backing buffer
    data0,            \* the buffer as it was when the cursor was created
    position,         \* the cursor's position
    op,               \* the last operation called
    pre,              \* position before the last operation
    arg,              \* its arguments
    ret,              \* what it returned
    reads,            \* buffer indices it read
    calls,            \* vectors it passed to func, in order
    fill,             \* the destination buffer after it (fill / into)
    panicked,         \* the last operation panicked
    tail_taken,       \* next_partial has returned a value at some time
    delivered         \* real elements the recorded calls (SpecProtocol) have
                      \* returned since construction, in call order

vars == << kind, overflow_checks, data, data0, position, op, pre, arg, ret,
           reads, calls, fill, panicked, tail_taken, delivered >>

Kinds == {"SIMDIter", "SIMDRefIter", "SIMDRefMutIter"}

RECURSIVE SeqsUpTo(_)
SeqsUpTo(n) ==
    IF n = 0 THEN {<< >>}
    ELSE LET S == SeqsUpTo(n - 1) IN
         S \cup {Append(s, x) : s \in {t \in S : Len(t) = n - 1}, x \in Vals}
Buffers == SeqsUpTo(MaxLen)

NoArg == [default |-> NoVec, f |-> "none", len |-> 0]
NoRet == [some |-> FALSE, vec |-> NoVec, n |-> 0, val |-> 0]

\* A cursor is created over a buffer with position 0.
Init ==
    /\ kind \in Kinds
    /\ overflow_checks \in BOOLEAN
    /\ data \in Buffers
    /\ data0 = data
    /\ position = 0
    /\ op = "new"
    /\ pre = 0
    /\ arg = NoArg
    /\ ret = NoRet
    /\ reads = {}
    /\ calls = << >>
    /\ fill = << >>
    /\ panicked = FALSE
    /\ tail_taken = FALSE
    /\ delivered = << >>

scalar_len(dat) == Len(dat)

\* --------------------------------------------------- Iterator::next (scalar)
\* data.get(position), then position += 1 whether or not there was an element.
\* Mutant: position is advanced by two.
next_double_step(pos, dat) ==
    [some |-> pos < Len(dat),
     val |-> IF pos < Len(dat) THEN At(dat, pos) ELSE 0,
     position |-> pos + 2,
     reads |-> IF pos < Len(dat) THEN {pos} ELSE {}]

next(pos, dat) ==
    [some |-> pos < Len(dat),
     val |-> IF pos < Len(dat) THEN At(dat, pos) ELSE 0,
     position |-> pos + 1,
     reads |-> IF pos < Len(dat) THEN {pos} ELSE {}]

\* --------------------------------------------------------------- next_vector
\* Mutant: the guard lets the load start one element too late.
next_vector_off_by_one(pos, dat) ==
    IF pos + WIDTH <= scalar_len(dat) + 1
    THEN [some |-> TRUE,
          vec |-> load_unchecked(dat, pos),
          position |-> pos + WIDTH,
          reads |-> {pos + i : i \in Lanes}]
    ELSE [some |-> FALSE, vec |-> NoVec, position |-> pos, reads |-> {}]

next_vector(pos, dat) ==
    IF pos + WIDTH <= scalar_len(dat)
    THEN [some |-> TRUE,
          vec |-> load_unchecked(dat, pos),
          position |-> pos + WIDTH,
          reads |-> {pos + i : i \in Lanes}]
    ELSE [some |-> FALSE, vec |-> NoVec, position |-> pos, reads |-> {}]

\* -------------------------------------------------------------- next_partial
\* The lane-by-lane tail: for i in empty_amt..WIDTH, replace lane i.
RECURSIVE partial_lanes(_, _, _, _, _)
partial_lanes(v, i, empty_amt, pos, dat) ==
    IF i >= WIDTH THEN v
    ELSE partial_lanes(replace(v, i, At(dat, pos + i - empty_amt)),
                       i + 1, empty_amt, pos, dat)

\* Mutant: the merge is partitioned at the number of real elements instead of
\* the number of empty lanes.
next_partial_real_count(pos, dat, default, checks) ==
    IF pos < scalar_len(dat)
    THEN LET remaining == scalar_len(dat) - pos
             empty_amt == usize_sub(WIDTH, remaining)
         IN  IF checks /\ underflows(WIDTH, remaining)
             THEN [some |-> FALSE, vec |-> NoVec, n |-> 0, position |-> pos,
                   reads |-> {}, panic |-> TRUE]
             ELSE IF WIDTH < scalar_len(dat)
             THEN [some |-> TRUE,
                   vec |-> merge_partitioned(default,
                               load(dat, scalar_len(dat) - WIDTH), remaining),
                   n |-> empty_amt,
                   position |-> scalar_len(dat),
                   reads |-> {scalar_len(dat) - WIDTH + i : i \in Lanes},
                   panic |-> FALSE]
             ELSE [some |-> TRUE,
                   vec |-> partial_lanes(default, empty_amt, empty_amt, pos, dat),
                   n |-> empty_amt,
                   position |-> scalar_len(dat),
                   reads |-> {pos + i - empty_amt : i \in empty_amt .. (WIDTH - 1)},
                   panic |-> FALSE]
    ELSE [some |-> FALSE, vec |-> NoVec, n |-> 0, position |-> pos,
          reads |-> {}, panic |-> FALSE]

\* Mutant: the guard also admits position = scalar_len.
next_partial_guard_le(pos, dat, default, checks) ==
    IF pos <= scalar_len(dat)
    THEN LET remaining == scalar_len(dat) - pos
             empty_amt == usize_sub(WIDTH, remaining)
         IN  IF checks /\ underflows(WIDTH, remaining)
             THEN [some |-> FALSE, vec |-> NoVec, n |-> 0, position |-> pos,
                   reads |-> {}, panic |-> TRUE]
             ELSE IF WIDTH < scalar_len(dat)
             THEN [some |-> TRUE,
                   vec |-> merge_partitioned(default,
                               load(dat, scalar_len(dat) - WIDTH), empty_amt),
                   n |-> empty_amt,
                   position |-> scalar_len(dat),
                   reads |-> {scalar_len(dat) - WIDTH + i : i \in Lanes},
                   panic |-> FALSE]
             ELSE [some |-> TRUE,
                   vec |-> partial_lanes(default, empty_amt, empty_amt, pos, dat),
                   n |-> empty_amt,
                   position |-> scalar_len(dat),
                   reads |-> {pos + i - empty_amt : i \in empty_amt .. (WIDTH - 1)},
                   panic |-> FALSE]
    ELSE [some |-> FALSE, vec |-> NoVec, n |-> 0, position |-> pos,
          reads |-> {}, panic |-> FALSE]

\* Mutant: the tail is returned but position is left where it was.
next_partial_keeps_position(pos, dat, default, checks) ==
    IF pos < scalar_len(dat)
    THEN LET remaining == scalar_len(dat) - pos
             empty_amt == usize_sub(WIDTH, remaining)
         IN  IF checks /\ underflows(WIDTH, remaining)
             THEN [some |-> FALSE, vec |-> NoVec, n |-> 0, position |-> pos,
                   reads |-> {}, panic |-> TRUE]
             ELSE IF WIDTH < scalar_len(dat)
             THEN [some |-> TRUE,
                   vec |-> merge_partitioned(default,
                               load(dat, scalar_len(dat) - WIDTH), empty_amt),
                   n |-> empty_amt,
                   position |-> pos,
                   reads |-> {scalar_len(dat) - WIDTH + i : i \in Lanes},
                   panic |-> FALSE]
             ELSE [some |-> TRUE,
                   vec |-> partial_lanes(default, empty_amt, empty_amt, pos, dat),
                   n |-> empty_amt,
                   position |-> pos,
                   reads |-> {pos + i - empty_amt : i \in empty_amt .. (WIDTH - 1)},
                   panic |-> FALSE]
    ELSE [some |-> FALSE, vec |-> NoVec, n |-> 0, position |-> pos,
          reads |-> {}, panic |-> FALSE]

next_partial(pos, dat, default, checks) ==
    IF pos < scalar_len(dat)
    THEN LET remaining == scalar_len(dat) - pos
             empty_amt == usize_sub(WIDTH, remaining)
         IN  IF checks /\ underflows(WIDTH, remaining)
             THEN [some |-> FALSE, vec |-> NoVec, n |-> 0, position |-> pos,
                   reads |-> {}, panic |-> TRUE]
             ELSE IF WIDTH < scalar_len(dat)
             THEN [some |-> TRUE,
                   vec |-> merge_partitioned(default,
                               load(dat, scalar_len(dat) - WIDTH), empty_amt),
                   n |-> empty_amt,
                   position |-> scalar_len(dat),
                   reads |-> {scalar_len(dat) - WIDTH + i : i \in Lanes},
                   panic |-> FALSE]
             ELSE [some |-> TRUE,
                   vec |-> partial_lanes(default, empty_amt, empty_amt, pos, dat),
                   n |-> empty_amt,
                   position |-> scalar_len(dat),
                   reads |-> {pos + i - empty_amt : i \in empty_amt .. (WIDTH - 1)},
                   panic |-> FALSE]
    ELSE [some |-> FALSE, vec |-> NoVec, n |-> 0, position |-> pos,
          reads |-> {}, panic |-> FALSE]

\* ------------------------------------------------------ lane-wise closures
\* The closures handed to the combinators: lane-wise maps of a vector.
Funcs == {"id", "inc"}
apply(f, v) == IF f = "inc" THEN [i \in 1 .. WIDTH |-> v[i] + 1] ELSE v
applyScalar(f, x) == IF f = "inc" THEN x + 1 ELSE x

\* Content of a destination element nothing was stored into.
Unwritten == 70 + 7
\* Destination lengths tried for a buffer of length n: empty, one short,
\* exact and one longer.
DestLens(n) == {0, n, n + 1} \cup {m \in {n - 1} : m >= 0}
fresh(n) == [k \in 1 .. n |-> Unwritten]

\* ----------------------------------------------- the tail store of a drain
\* for i in 0..(WIDTH - n) { buf[offset + i] = p.extract(i + n) }, each
\* buf[..] bounds-checked.
RECURSIVE store_elementwise(_, _, _, _, _, _)
\* Mutant: the loop stops silently at the end of the destination.
store_elementwise_clamped(p, n, buf, offset, i, end) ==
    IF i >= end \/ offset + i >= Len(buf) THEN [buf |-> buf, panic |-> FALSE]
    ELSE store_elementwise(p, n, [buf EXCEPT ![offset + i + 1] = extract(p, i + n)],
                           offset, i + 1, end)

store_elementwise(p, n, buf, offset, i, end) ==
    IF i >= end THEN [buf |-> buf, panic |-> FALSE]
    ELSE IF offset + i >= Len(buf) THEN [buf |-> buf, panic |-> TRUE]
    ELSE store_elementwise(p, n, [buf EXCEPT ![offset + i + 1] = extract(p, i + n)],
                           offset, i + 1, end)

\* Mutant: the tail vector is stored left-aligned, at offset.
store_tail_at_offset(p, n, buf, offset, lastvec, checks) ==
    IF offset > 0
    THEN IF ~store_ok(buf, offset)
         THEN [buf |-> buf, panic |-> TRUE]
         ELSE [buf |-> store(p, buf, offset), panic |-> FALSE]
    ELSE IF checks /\ underflows(WIDTH, n)
         THEN [buf |-> buf, panic |-> TRUE]
         ELSE store_elementwise(p, n, buf, offset, 0, usize_sub(WIDTH, n))

\* Mutant: the last full vector is not stored again after the tail store.
store_tail_no_restore(p, n, buf, offset, lastvec, checks) ==
    IF offset > 0
    THEN IF checks /\ underflows(offset, n)
         THEN [buf |-> buf, panic |-> TRUE]
         ELSE IF ~store_ok(buf, usize_sub(offset, n))
         THEN [buf |-> buf, panic |-> TRUE]
         ELSE [buf |-> store(p, buf, usize_sub(offset, n)), panic |-> FALSE]
    ELSE IF checks /\ underflows(WIDTH, n)
         THEN [buf |-> buf, panic |-> TRUE]
         ELSE store_elementwise(p, n, buf, offset, 0, usize_sub(WIDTH, n))

\* if offset > 0 { p.store(buf, offset - n); lastvec.store(buf, offset - WIDTH) }
\* else { store elementwise }
store_tail(p, n, buf, offset, lastvec, checks) ==
    IF offset > 0
    THEN IF checks /\ underflows(offset, n)
         THEN [buf |-> buf, panic |-> TRUE]
         ELSE IF ~store_ok(buf, usize_sub(offset, n))
         THEN [buf |-> buf, panic |-> TRUE]
         ELSE LET b1 == store(p, buf, usize_sub(offset, n)) IN
              IF checks /\ underflows(offset, WIDTH)
              THEN [buf |-> b1, panic |-> TRUE]
              ELSE IF ~store_ok(b1, usize_sub(offset, WIDTH))
              THEN [buf |-> b1, panic |-> TRUE]
              ELSE [buf |-> store(lastvec, b1, usize_sub(offset, WIDTH)),
                    panic |-> FALSE]
    ELSE IF checks /\ underflows(WIDTH, n)
         THEN [buf |-> buf, panic |-> TRUE]
         ELSE store_elementwise(p, n, buf, offset, 0, usize_sub(WIDTH, n))

\* ---------------------------------------------------------------- scalar_fill
\* while let Some(vec) = self.next_vector() { vec.store(fill, offset); ... }
RECURSIVE fill_vectors(_, _)
fill_vectors(s, dat) ==
    LET r == next_vector(s.position, dat) IN
    IF ~r.some THEN s
    ELSE IF ~store_ok(s.fill, s.offset)
    THEN [s EXCEPT !.position = r.position, !.reads = @ \cup r.reads,
                   !.panic = TRUE]
    ELSE fill_vectors([position |-> r.position,
                       fill |-> store(r.vec, s.fill, s.offset),
                       offset |-> s.offset + WIDTH,
                       lastvec |-> r.vec,
                       reads |-> s.reads \cup r.reads,
                       tail |-> FALSE,
                       panic |-> FALSE], dat)

scalar_fill(pos, dat, fl, checks) ==
    LET s == fill_vectors([position |-> pos, fill |-> fl, offset |-> 0,
                           lastvec |-> VectorDefault, reads |-> {},
                           tail |-> FALSE, panic |-> FALSE], dat)
    IN  IF s.panic THEN s
        ELSE LET p == next_partial(s.position, dat, VectorDefault, checks) IN
             IF p.panic THEN [s EXCEPT !.panic = TRUE]
             ELSE IF ~p.some THEN s
             ELSE LET t == store_tail(p.vec, p.n, s.fill, s.offset, s.lastvec,
                                      checks)
                  IN  [s EXCEPT !.position = p.position,
                                !.fill = t.buf,
                                !.reads = @ \cup p.reads,
                                !.tail = TRUE,
                                !.panic = t.panic]

\* -------------------------------------------- SIMDRefMutIter::simd_for_each
\* while let Some(v) = self.next_vector() {
\*     func(v); v.store(self.data, self.position - v.width()); ... }
\* func returns (): its argument is recorded, the vector stored is v itself.
RECURSIVE for_each_vectors(_, _)
\* Mutant: the vector is stored at the advanced position, one vector too far.
for_each_vectors_at_position(s, checks) ==
    LET r == next_vector(s.position, s.data) IN
    IF ~r.some THEN s
    ELSE LET s1 == [s EXCEPT !.position = r.position,
                             !.reads = @ \cup r.reads,
                             !.calls = Append(@, r.vec)]
         IN  IF ~store_ok(s.data, r.position)
             THEN [s1 EXCEPT !.panic = TRUE]
             ELSE for_each_vectors(
                    [s1 EXCEPT !.data = store(r.vec, s.data, r.position),
                               !.offset = @ + WIDTH,
                               !.lastvec = r.vec], checks)

for_each_vectors(s, checks) ==
    LET r == next_vector(s.position, s.data) IN
    IF ~r.some THEN s
    ELSE LET s1 == [s EXCEPT !.position = r.position,
                             !.reads = @ \cup r.reads,
                             !.calls = Append(@, r.vec)]
         IN  IF checks /\ underflows(r.position, WIDTH)
             THEN [s1 EXCEPT !.panic = TRUE]
             ELSE IF ~store_ok(s.data, usize_sub(r.position, WIDTH))
             THEN [s1 EXCEPT !.panic = TRUE]
             ELSE for_each_vectors(
                    [s1 EXCEPT !.data = store(r.vec, s.data,
                                              usize_sub(r.position, WIDTH)),
                               !.offset = @ + WIDTH,
                               !.lastvec = r.vec], checks)

simd_for_each(pos, dat, default, f, checks) ==
    LET s == for_each_vectors([position |-> pos, data |-> dat, offset |-> 0,
                               lastvec |-> default, reads |-> {},
                               calls |-> << >>, tail |-> FALSE,
                               panic |-> FALSE], checks)
    IN  IF s.panic THEN s
        ELSE LET p == next_partial(s.position, s.data, default, checks) IN
             IF p.panic THEN [s EXCEPT !.panic = TRUE]
             ELSE IF ~p.some THEN s
             ELSE LET t == store_tail(p.vec, p.n, s.data, s.offset, s.lastvec,
                                      checks)
                  IN  [s EXCEPT !.position = p.position,
                                !.data = t.buf,
                                !.reads = @ \cup p.reads,
                                !.calls = Append(@, p.vec),
                                !.tail = TRUE,
                                !.panic = t.panic]

\* ----------------------------------------------- SIMDRefIter::simd_map_into
\* while i < even_elements { func(load(data, i)).store(into, i); i += width }
RECURSIVE map_into_vectors(_, _, _, _)
map_into_vectors(s, dat, f, even_elements) ==
    IF s.i >= even_elements THEN s
    ELSE IF ~load_ok(dat, s.i) THEN [s EXCEPT !.panic = TRUE]
    ELSE LET vec == load(dat, s.i)
             s1 == [s EXCEPT !.reads = @ \cup {s.i + k : k \in Lanes},
                             !.calls = Append(@, vec)]
         IN  IF ~store_ok(s.into, s.i) THEN [s1 EXCEPT !.panic = TRUE]
             ELSE map_into_vectors(
                    [s1 EXCEPT !.into = store(apply(f, vec), s.into, s.i),
                               !.i = @ + WIDTH], dat, f, even_elements)

simd_map_into(dat, into, default, f, checks) ==
    IF checks /\ ~(Len(into) >= scalar_len(dat))          \* debug_assert!
    THEN [into |-> into, i |-> 0, reads |-> {}, calls |-> << >>,
          panic |-> TRUE]
    ELSE
    LET even_elements == Len(dat) - (Len(dat) % WIDTH)
        s == map_into_vectors([into |-> into, i |-> 0, reads |-> {},
                               calls |-> << >>, panic |-> FALSE],
                              dat, f, even_elements)
    IN  IF s.panic THEN s
        ELSE IF even_elements < scalar_len(dat)
        THEN LET empty_elements == scalar_len(dat) - even_elements
                 at == usize_sub(scalar_len(dat), WIDTH)
             IN  IF checks /\ underflows(scalar_len(dat), WIDTH)
                 THEN [s EXCEPT !.panic = TRUE]
                 ELSE IF ~load_ok(dat, at) THEN [s EXCEPT !.panic = TRUE]
                 ELSE LET uneven_vec == load(dat, at)
                          arg_vec == merge_partitioned(default, uneven_vec,
                                                       empty_elements)
                          s1 == [s EXCEPT !.reads = @ \cup {at + k : k \in Lanes},
                                          !.calls = Append(@, arg_vec)]
                      IN  IF ~store_ok(s.into, at)
                          THEN [s1 EXCEPT !.panic = TRUE]
                          ELSE [s1 EXCEPT !.into = store(apply(f, arg_vec),
                                                         s.into, at)]
        ELSE s

\* ------------------------------------------------------------------ actions
NextCall ==
    /\ ~panicked
    /\ position < Len(data) + MaxOver
    /\ LET r == next(position, data) IN
        /\ position' = r.position
        /\ ret' = [NoRet EXCEPT !.some = r.some, !.val = r.val]
        /\ reads' = r.reads
    /\ op' = "next"
    /\ pre' = position
    /\ arg' = NoArg
    /\ calls' = << >>
    /\ fill' = << >>
    /\ UNCHANGED << kind, overflow_checks, data, data0, panicked, tail_taken >>

Next_ == NextCall /\ UNCHANGED delivered

NextVectorCall ==
    /\ ~panicked
    /\ LET r == next_vector(position, data) IN
        /\ position' = r.position
        /\ ret' = [NoRet EXCEPT !.some = r.some, !.vec = r.vec]
        /\ reads' = r.reads
    /\ op' = "next_vector"
    /\ pre' = position
    /\ arg' = NoArg
    /\ calls' = << >>
    /\ fill' = << >>
    /\ UNCHANGED << kind, overflow_checks, data, data0, panicked, tail_taken >>

NextVector == NextVectorCall /\ UNCHANGED delivered

NextPartialCall ==
    /\ ~panicked
    /\ \E default \in Defaults :
        LET r == next_partial(position, data, default, overflow_checks) IN
        /\ position' = r.position
        /\ ret' = [NoRet EXCEPT !.some = r.some, !.vec = r.vec, !.n = r.n]
        /\ reads' = r.reads
        /\ panicked' = r.panic
        /\ tail_taken' = (tail_taken \/ r.some)
        /\ arg' = [NoArg EXCEPT !.default = default]
    /\ op' = "next_partial"
    /\ pre' = position
    /\ calls' = << >>
    /\ fill' = << >>
    /\ UNCHANGED << kind, overflow_checks, data, data0 >>

NextPartial == NextPartialCall /\ UNCHANGED delivered

ScalarFill ==
    /\ ~panicked
    /\ \E len \in DestLens(Len(data)) :
        LET r == scalar_fill(position, data, fresh(len), overflow_checks) IN
        /\ position' = r.position
        /\ fill' = r.fill
        /\ reads' = r.reads
        /\ panicked' = r.panic
        /\ tail_taken' = (tail_taken \/ r.tail)
        /\ arg' = [NoArg EXCEPT !.len = len]
    /\ op' = "scalar_fill"
    /\ pre' = position
    /\ ret' = NoRet
    /\ calls' = << >>
    /\ UNCHANGED << delivered, kind, overflow_checks, data, data0 >>

SimdForEach ==
    /\ ~panicked
    /\ kind = "SIMDRefMutIter"
    /\ \E default \in Defaults, f \in Funcs :
        LET r == simd_for_each(position, data, default, f, overflow_checks) IN
        /\ position' = r.position
        /\ data' = r.data
        /\ reads' = r.reads
        /\ calls' = r.calls
        /\ panicked' = r.panic
        /\ tail_taken' = (tail_taken \/ r.tail)
        /\ arg' = [NoArg EXCEPT !.default = default, !.f = f]
    /\ op' = "simd_for_each"
    /\ pre' = position
    /\ ret' = NoRet
    /\ fill' = << >>
    /\ UNCHANGED << delivered, kind, overflow_checks, data0 >>

SimdMapInto ==
    /\ ~panicked
    /\ kind = "SIMDRefIter"
    /\ \E default \in Defaults, f \in Funcs, len \in DestLens(Len(data)) :
        LET r == simd_map_into(data, fresh(len), default, f, overflow_checks) IN
        /\ fill' = r.into
        /\ reads' = r.reads
        /\ calls' = r.calls
        /\ panicked' = r.panic
        /\ arg' = [default |-> default, f |-> f, len |-> len]
    /\ op' = "simd_map_into"
    /\ pre' = position
    /\ ret' = NoRet
    /\ UNCHANGED << delivered, kind, overflow_checks, data, data0, position, tail_taken >>

Next ==
    \/ Next_
    \/ NextVector
    \/ NextPartial
    \/ ScalarFill
    \/ SimdForEach
    \/ SimdMapInto

Spec == Init /\ [][Next]_vars

\* =========================================================== SIMDMap adapter
\* Size in bytes of the input and of the output scalar (equal-sized types).
SIZE == 4

\* SIMDMap::next_vector: self.iter.next_vector().map(&mut self.func)
map_next_vector(pos, dat, f) ==
    LET r == next_vector(pos, dat) IN
    IF r.some THEN [r EXCEPT !.vec = apply(f, r.vec)] ELSE r

\* Mutant: the transformed tail is returned without merging the output
\* default over its padding lanes.
map_next_partial_no_merge(pos, dat, inner_default, f, default, checks) ==
    LET r == next_partial(pos, dat, inner_default, checks) IN
    IF r.panic \/ ~r.some
    THEN [r EXCEPT !.some = FALSE] @@ [called |-> << >>]
    ELSE LET nr == ((r.n * SIZE) % USIZE) \div SIZE IN
         [r EXCEPT !.vec = apply(f, r.vec), !.n = nr] @@ [called |-> << r.vec >>]

\* SIMDMap::next_partial: the inner tail under the adapter's own default,
\* func applied, the missing count rescaled, the output default merged in.
map_next_partial(pos, dat, inner_default, f, default, checks) ==
    LET r == next_partial(pos, dat, inner_default, checks) IN
    IF r.panic \/ ~r.some
    THEN [r EXCEPT !.some = FALSE] @@ [called |-> << >>]
    ELSE LET nr == ((r.n * SIZE) % USIZE) \div SIZE IN
         [r EXCEPT !.vec = merge_partitioned(default, apply(f, r.vec), nr),
                   !.n = nr] @@ [called |-> << r.vec >>]

\* scalar_fill over a SIMDMap: the full-vector loop.
RECURSIVE map_fill_vectors(_, _, _)
map_fill_vectors(s, dat, f) ==
    LET r == map_next_vector(s.position, dat, f) IN
    IF ~r.some THEN s
    ELSE IF ~store_ok(s.fill, s.offset)
    THEN [s EXCEPT !.position = r.position, !.reads = @ \cup r.reads,
                   !.panic = TRUE]
    ELSE map_fill_vectors([position |-> r.position,
                           fill |-> store(r.vec, s.fill, s.offset),
                           offset |-> s.offset + WIDTH,
                           lastvec |-> r.vec,
                           reads |-> s.reads \cup r.reads,
                           tail |-> FALSE,
                           panic |-> FALSE], dat, f)

\* scalar_fill over a SIMDMap.
map_scalar_fill(pos, dat, inner_default, f, fl, checks) ==
    LET s == map_fill_vectors([position |-> pos, fill |-> fl, offset |-> 0,
                               lastvec |-> VectorDefault, reads |-> {},
                               tail |-> FALSE, panic |-> FALSE], dat, f)
    IN  IF s.panic THEN s
        ELSE LET p == map_next_partial(s.position, dat, inner_default, f,
                                       VectorDefault, checks) IN
             IF p.panic THEN [s EXCEPT !.panic = TRUE]
             ELSE IF ~p.some THEN s
             ELSE LET t == store_tail(p.vec, p.n, s.fill, s.offset, s.lastvec,
                                      checks)
                  IN  [s EXCEPT !.position = p.position,
                                !.fill = t.buf,
                                !.reads = @ \cup p.reads,
                                !.tail = TRUE,
                                !.panic = t.panic]

\* scalar_collect over a SIMDMap: ret has self.len() elements, not yet
\* initialised (uninit); then the same loop and tail store as scalar_fill.
RECURSIVE map_collect_vectors(_, _, _)
map_collect_vectors(s, dat, f) ==
    LET r == map_next_vector(s.position, dat, f) IN
    IF ~r.some THEN s
    ELSE IF ~store_ok(s.fill, s.offset)
    THEN [s EXCEPT !.position = r.position, !.reads = @ \cup r.reads,
                   !.panic = TRUE]
    ELSE map_collect_vectors([position |-> r.position,
                              fill |-> store(r.vec, s.fill, s.offset),
                              offset |-> s.offset + WIDTH,
                              lastvec |-> r.vec,
                              reads |-> s.reads \cup r.reads,
                              tail |-> FALSE,
                              panic |-> FALSE], dat, f)

map_scalar_collect(pos, dat, inner_default, f, uninit, checks) ==
    LET s == map_collect_vectors(
                [position |-> pos,
                 fill |-> [k \in 1 .. Len(dat) |-> uninit],
                 offset |-> 0, lastvec |-> VectorDefault, reads |-> {},
                 tail |-> FALSE, panic |-> FALSE], dat, f)
    IN  IF s.panic THEN s
        ELSE LET p == map_next_partial(s.position, dat, inner_default, f,
                                       VectorDefault, checks) IN
             IF p.panic THEN [s EXCEPT !.panic = TRUE]
             ELSE IF ~p.some THEN s
             ELSE LET t == store_tail(p.vec, p.n, s.fill, s.offset, s.lastvec,
                                      checks)
                  IN  [s EXCEPT !.position = p.position,
                                !.fill = t.buf,
                                !.reads = @ \cup p.reads,
                                !.tail = TRUE,
                                !.panic = t.panic]

\* What an element of a Vec that was set_len'd but never written may hold.
Uninit == {Stray, Unwritten}

MapNextVector ==
    /\ ~panicked
    /\ \E f \in Funcs :
        LET r == map_next_vector(position, data, f) IN
        /\ position' = r.position
        /\ ret' = [NoRet EXCEPT !.some = r.some, !.vec = r.vec]
        /\ reads' = r.reads
        /\ arg' = [NoArg EXCEPT !.f = f]
    /\ op' = "map_next_vector"
    /\ pre' = position
    /\ calls' = << >>
    /\ fill' = << >>
    /\ UNCHANGED << delivered, kind, overflow_checks, data, data0, panicked, tail_taken >>

MapNextPartial ==
    /\ ~panicked
    /\ \E inner_default \in Defaults, f \in Funcs, default \in Defaults :
        LET r == map_next_partial(position, data, inner_default, f, default,
                                  overflow_checks) IN
        /\ position' = r.position
        /\ ret' = [NoRet EXCEPT !.some = r.some, !.vec = r.vec, !.n = r.n]
        /\ reads' = r.reads
        /\ calls' = r.called
        /\ panicked' = r.panic
        /\ tail_taken' = (tail_taken \/ r.some)
        /\ arg' = [NoArg EXCEPT !.default = default, !.f = f]
    /\ op' = "map_next_partial"
    /\ pre' = position
    /\ fill' = << >>
    /\ UNCHANGED << delivered, kind, overflow_checks, data, data0 >>

MapScalarFill ==
    /\ ~panicked
    /\ \E inner_default \in Defaults, f \in Funcs,
          len \in {Len(data), Len(data) + 1} :
        LET r == map_scalar_fill(position, data, inner_default, f, fresh(len),
                                 overflow_checks) IN
        /\ position' = r.position
        /\ fill' = r.fill
        /\ reads' = r.reads
        /\ panicked' = r.panic
        /\ tail_taken' = (tail_taken \/ r.tail)
        /\ arg' = [default |-> inner_default, f |-> f, len |-> len]
    /\ op' = "map_scalar_fill"
    /\ pre' = position
    /\ ret' = NoRet
    /\ calls' = << >>
    /\ UNCHANGED << delivered, kind, overflow_checks, data, data0 >>

MapScalarCollect ==
    /\ ~panicked
    /\ \E inner_default \in Defaults, f \in Funcs, uninit \in Uninit :
        LET r == map_scalar_collect(position, data, inner_default, f, uninit,
                                    overflow_checks) IN
        /\ position' = r.position
        /\ fill' = r.fill
        /\ reads' = r.reads
        /\ panicked' = r.panic
        /\ tail_taken' = (tail_taken \/ r.tail)
        /\ arg' = [default |-> inner_default, f |-> f, len |-> Len(data)]
    /\ op' = "map_scalar_collect"
    /\ pre' = position
    /\ ret' = NoRet
    /\ calls' = << >>
    /\ UNCHANGED << delivered, kind, overflow_checks, data, data0 >>

\* The combinators are generic over SIMDIterator and the three cursors share
\* next_vector / next_partial, so the stream specifications explore one cursor.
InitStream == Init /\ kind = "SIMDRefIter"

NextMap ==
    \/ Next_
    \/ NextVector
    \/ NextPartial
    \/ MapNextVector
    \/ MapNextPartial
    \/ MapScalarFill
    \/ MapScalarCollect

SpecMap == InitStream /\ [][NextMap]_vars

\* ============================================== whole-stream combinators
\* The closure of the reductions: |acc, v| acc + v, lane by lane.
add(acc, v) == [i \in 1 .. WIDTH |-> acc[i] + v[i]]

\* simd_do_each: while let Some(v) = self.next_vector() { func(v) }
RECURSIVE do_each_vectors(_, _)
do_each_vectors(s, dat) ==
    LET r == next_vector(s.position, dat) IN
    IF ~r.some THEN s
    ELSE do_each_vectors([s EXCEPT !.position = r.position,
                                   !.reads = @ \cup r.reads,
                                   !.calls = Append(@, r.vec)], dat)

\* simd_do_each: every full vector, then the tail if there is one.
simd_do_each(pos, dat, default, checks) ==
    LET s == do_each_vectors([position |-> pos, reads |-> {}, calls |-> << >>,
                              tail |-> FALSE, panic |-> FALSE], dat)
        p == next_partial(s.position, dat, default, checks)
    IN  IF p.panic THEN [s EXCEPT !.panic = TRUE]
        ELSE IF ~p.some THEN s
        ELSE [s EXCEPT !.position = p.position,
                       !.reads = @ \cup p.reads,
                       !.calls = Append(@, p.vec),
                       !.tail = TRUE]

\* simd_reduce: while let Some(v) = self.next_vector() { acc = func(acc, v) }
RECURSIVE reduce_vectors(_, _)
reduce_vectors(s, dat) ==
    LET r == next_vector(s.position, dat) IN
    IF ~r.some THEN s
    ELSE reduce_vectors([s EXCEPT !.position = r.position,
                                  !.acc = add(@, r.vec),
                                  !.reads = @ \cup r.reads,
                                  !.calls = Append(@, r.vec)], dat)

\* debug_assert!(self.next_partial(default).is_none()): evaluated only in a
\* debug build, where it calls next_partial once more.
reduce_debug_assert(s, dat, default, checks) ==
    IF checks
    THEN LET q == next_partial(s.position, dat, default, checks) IN
         [s EXCEPT !.position = q.position, !.panic = q.panic \/ q.some]
    ELSE s

\* The tail step of simd_reduce: if let Some((v, _)) = self.next_partial(default)
\* { acc = func(acc, v) }.
reduce_tail(s, dat, default, checks) ==
    LET p == next_partial(s.position, dat, default, checks) IN
    IF p.panic THEN [s EXCEPT !.panic = TRUE]
    ELSE IF ~p.some THEN s
    ELSE [s EXCEPT !.position = p.position,
                   !.acc = add(@, p.vec),
                   !.reads = @ \cup p.reads,
                   !.calls = Append(@, p.vec),
                   !.tail = TRUE]

\* Mutant: the tail vector is folded in a second time.
simd_reduce_tail_twice(pos, dat, start, default, checks) ==
    LET s0 == [position |-> pos, acc |-> start, reads |-> {},
               calls |-> << >>, tail |-> FALSE, panic |-> FALSE]
        s == reduce_tail(reduce_vectors(s0, dat), dat, default, checks)
    IN  IF s.tail THEN [s EXCEPT !.acc = add(@, s.calls[Len(s.calls)])] ELSE s

simd_reduce(pos, dat, start, default, checks) ==
    LET s0 == [position |-> pos, acc |-> start, reads |-> {},
               calls |-> << >>, tail |-> FALSE, panic |-> FALSE]
        r == next_vector(pos, dat)
    IN  IF r.some
        THEN LET s1 == reduce_vectors(
                          [s0 EXCEPT !.position = r.position,
                                     !.acc = add(start, r.vec),
                                     !.reads = r.reads,
                                     !.calls = << r.vec >>], dat)
                 s2 == reduce_tail(s1, dat, default, checks)
             IN  IF s2.panic THEN s2
                 ELSE reduce_debug_assert(s2, dat, default, checks)
        ELSE LET s2 == reduce_tail(s0, dat, default, checks) IN
             IF s2.panic \/ ~s2.tail THEN s2
             ELSE reduce_debug_assert(s2, dat, default, checks)

\* ------------------------------------------------ scalar_collect on a cursor
RECURSIVE collect_vectors(_, _)
\* Mutant: offset is not advanced, every vector lands at the start of ret.
collect_vectors_same_offset(s, dat) ==
    LET r == next_vector(s.position, dat) IN
    IF ~r.some THEN s
    ELSE IF ~store_ok(s.fill, s.offset)
    THEN [s EXCEPT !.position = r.position, !.reads = @ \cup r.reads,
                   !.panic = TRUE]
    ELSE collect_vectors([position |-> r.position,
                          fill |-> store(r.vec, s.fill, s.offset),
                          offset |-> s.offset,
                          lastvec |-> r.vec,
                          reads |-> s.reads \cup r.reads,
                          tail |-> FALSE,
                          panic |-> FALSE], dat)

\* while let Some(vec) = self.next_vector() { vec.store(ret, offset); ... }
collect_vectors(s, dat) ==
    LET r == next_vector(s.position, dat) IN
    IF ~r.some THEN s
    ELSE IF ~store_ok(s.fill, s.offset)
    THEN [s EXCEPT !.position = r.position, !.reads = @ \cup r.reads,
                   !.panic = TRUE]
    ELSE collect_vectors([position |-> r.position,
                          fill |-> store(r.vec, s.fill, s.offset),
                          offset |-> s.offset + WIDTH,
                          lastvec |-> r.vec,
                          reads |-> s.reads \cup r.reads,
                          tail |-> FALSE,
                          panic |-> FALSE], dat)

\* ret = Vec of self.len() elements, not yet initialised (uninit).
scalar_collect(pos, dat, uninit, checks) ==
    LET s == collect_vectors([position |-> pos,
                              fill |-> [k \in 1 .. Len(dat) |-> uninit],
                              offset |-> 0, lastvec |-> VectorDefault,
                              reads |-> {}, tail |-> FALSE,
                              panic |-> FALSE], dat)
    IN  IF s.panic THEN s
        ELSE LET p == next_partial(s.position, dat, VectorDefault, checks) IN
             IF p.panic THEN [s EXCEPT !.panic = TRUE]
             ELSE IF ~p.some THEN s
             ELSE LET t == store_tail(p.vec, p.n, s.fill, s.offset, s.lastvec,
                                      checks)
                  IN  [s EXCEPT !.position = p.position,
                                !.fill = t.buf,
                                !.reads = @ \cup p.reads,
                                !.tail = TRUE,
                                !.panic = t.panic]

\* ------------------------------------------------------------------ Unroll
\* Capacity of Unroll::scratch and the largest amt unroll() accepts.
UnrollMax == 8

\* Mutant: the loop stops one vector short of amt.
RECURSIVE unroll_loop(_, _, _)
unroll_loop_one_short(s, dat, amt) ==
    IF s.i + 1 >= amt THEN s
    ELSE LET r == next_vector(s.position, dat) IN      \* PackedIter::next
         IF ~r.some THEN s
         ELSE unroll_loop([s EXCEPT !.scratch[s.i + 1] = r.vec,
                                    !.i = @ + 1,
                                    !.position = r.position,
                                    !.reads = @ \cup r.reads], dat, amt)

\* while i < self.amt { if let Some(vec) = self.iter.next() {
\*     self.scratch[i] = vec; i += 1 } else { break } }
unroll_loop(s, dat, amt) ==
    IF s.i >= amt THEN s
    ELSE LET r == next_vector(s.position, dat) IN      \* PackedIter::next
         IF ~r.some THEN s
         ELSE unroll_loop([s EXCEPT !.scratch[s.i + 1] = r.vec,
                                    !.i = @ + 1,
                                    !.position = r.position,
                                    !.reads = @ \cup r.reads], dat, amt)

\* pack().unroll(amt).next(): assert!(amt <= 8), scratch of 8 default
\* vectors, then the window over the first i of them, or None when i = 0.
unroll_next(pos, dat, amt) ==
    IF ~(amt <= UnrollMax)
    THEN [some |-> FALSE, window |-> << >>, position |-> pos, reads |-> {},
          panic |-> TRUE]
    ELSE LET s == unroll_loop([i |-> 0, position |-> pos, reads |-> {},
                               scratch |-> [k \in 1 .. UnrollMax |-> VectorDefault]],
                              dat, amt)
         IN  [some |-> s.i > 0,
              window |-> SubSeq(s.scratch, 1, s.i),
              position |-> s.position,
              reads |-> s.reads,
              panic |-> FALSE]

SimdDoEach ==
    /\ ~panicked
    /\ \E default \in Defaults :
        LET r == simd_do_each(position, data, default, overflow_checks) IN
        /\ position' = r.position
        /\ reads' = r.reads
        /\ calls' = r.calls
        /\ panicked' = r.panic
        /\ tail_taken' = (tail_taken \/ r.tail)
        /\ arg' = [NoArg EXCEPT !.default = default]
    /\ op' = "simd_do_each"
    /\ pre' = position
    /\ ret' = NoRet
    /\ fill' = << >>
    /\ UNCHANGED << delivered, kind, overflow_checks, data, data0 >>

\* simd_reduce(start = splat(0), default, |acc, v| acc + v)
SimdReduce ==
    /\ ~panicked
    /\ \E default \in Defaults :
        LET r == simd_reduce(position, data, VectorDefault, default,
                             overflow_checks) IN
        /\ position' = r.position
        /\ ret' = [NoRet EXCEPT !.some = TRUE, !.vec = r.acc]
        /\ reads' = r.reads
        /\ calls' = r.calls
        /\ panicked' = r.panic
        /\ tail_taken' = (tail_taken \/ r.tail)
        /\ arg' = [NoArg EXCEPT !.default = default, !.f = "add"]
    /\ op' = "simd_reduce"
    /\ pre' = position
    /\ fill' = << >>
    /\ UNCHANGED << delivered, kind, overflow_checks, data, data0 >>

ScalarCollect ==
    /\ ~panicked
    /\ \E uninit \in Uninit :
        LET r == scalar_collect(position, data, uninit, overflow_checks) IN
        /\ position' = r.position
        /\ fill' = r.fill
        /\ reads' = r.reads
        /\ panicked' = r.panic
        /\ tail_taken' = (tail_taken \/ r.tail)
    /\ arg' = [NoArg EXCEPT !.len = Len(data)]
    /\ op' = "scalar_collect"
    /\ pre' = position
    /\ ret' = NoRet
    /\ calls' = << >>
    /\ UNCHANGED << delivered, kind, overflow_checks, data, data0 >>

UnrollNext ==
    /\ ~panicked
    /\ \E amt \in 0 .. (UnrollMax + 1) :
        LET r == unroll_next(position, data, amt) IN
        /\ position' = r.position
        /\ ret' = [NoRet EXCEPT !.some = r.some, !.vec = r.window,
                                !.n = Len(r.window)]
        /\ reads' = r.reads
        /\ panicked' = r.panic
        /\ arg' = [NoArg EXCEPT !.len = amt]
    /\ op' = "unroll_next"
    /\ pre' = position
    /\ calls' = << >>
    /\ fill' = << >>
    /\ UNCHANGED << delivered, kind, overflow_checks, data, data0, tail_taken >>

NextStream ==
    \/ Next_
    \/ NextVector
    \/ NextPartial
    \/ SimdDoEach
    \/ SimdReduce
    \/ ScalarCollect
    \/ UnrollNext

SpecStream == InitStream /\ [][NextStream]_vars

\* ------------------------------------------- scalar protocol and mixed calls
\* size_hint: let remaining = self.data.len() - self.position;
\* (remaining, Some(remaining))
size_hint(pos, dat, checks) ==
    IF checks /\ underflows(Len(dat), pos)
    THEN [lower |-> 0, upper |-> 0, panic |-> TRUE]
    ELSE [lower |-> usize_sub(Len(dat), pos),
          upper |-> usize_sub(Len(dat), pos),
          panic |-> FALSE]

\* The real elements of the tail next_partial returned: the lanes from n on.
real_lanes(r) ==
    IF r.some /\ r.n < WIDTH
    THEN [k \in 1 .. (WIDTH - r.n) |-> Lane(r.vec, r.n + k - 1)]
    ELSE << >>

\* The three cursor calls, with what they return recorded in delivered.
NextRecorded ==
    /\ NextCall
    /\ delivered' = IF ret'.some THEN Append(delivered, ret'.val) ELSE delivered

NextVectorRecorded ==
    /\ NextVectorCall
    /\ delivered' = delivered \o ret'.vec

NextPartialRecorded ==
    /\ NextPartialCall
    /\ delivered' = delivered \o real_lanes(ret')

\* ret.n is the lower bound, ret.val the upper bound, which is always Some.
SizeHint ==
    /\ ~panicked
    /\ LET r == size_hint(position, data, overflow_checks) IN
        /\ ret' = IF r.panic THEN NoRet
                  ELSE [NoRet EXCEPT !.some = TRUE, !.n = r.lower, !.val = r.upper]
        /\ panicked' = r.panic
    /\ op' = "size_hint"
    /\ pre' = position
    /\ arg' = NoArg
    /\ reads' = {}
    /\ calls' = << >>
    /\ fill' = << >>
    /\ UNCHANGED << delivered, kind, overflow_checks, data, data0, position,
                    tail_taken >>

NextProtocol ==
    \/ NextRecorded
    \/ NextVectorRecorded
    \/ NextPartialRecorded
    \/ SizeHint

SpecProtocol == Init /\ [][NextProtocol]_vars

\* ==================================================================== claims
Remaining == Len(data) - pre
FilledPrefix(n) == \A i \in 1 .. n : fill[i] = data[i]

\* C1: a cursor at position 0 drained by scalar_fill into a destination at
\* least as long as the buffer returns normally and leaves dest[i] = buffer[i]
\* for every i below the buffer length.
C1_RoundTrip ==
    (op = "scalar_fill" /\ pre = 0 /\ arg.len >= Len(data))
        => (~panicked /\ FilledPrefix(Len(data)))

\* C1 witness: a buffer longer than one vector with a non-empty tail was
\* drained, so the tail store and the re-store of the last vector both ran.
C1_Witness ==
    /\ op = "scalar_fill" /\ pre = 0 /\ arg.len >= Len(data)
    /\ Len(data) > WIDTH /\ Len(data) % WIDTH # 0
    /\ position = Len(data) /\ FilledPrefix(Len(data))

\* C2: when next_partial returns (v, empty_amt) from a state with between 1
\* and WIDTH elements left, empty_amt = WIDTH - remaining, lanes below
\* empty_amt are the default's and lane i >= empty_amt is
\* data[position + i - empty_amt], on both the full-load and the lane path.
C2_TailLayout ==
    (op = "next_partial" /\ ret.some /\ Remaining >= 1 /\ Remaining <= WIDTH)
        => /\ ret.n = WIDTH - Remaining
           /\ \A i \in Lanes :
                Lane(ret.vec, i) = IF i < ret.n THEN Lane(arg.default, i)
                                   ELSE At(data, pre + i - ret.n)

\* C2 witness: a tail with padding was built by the right-aligned full load
\* over a lane-distinct default.
C2_Witness ==
    /\ op = "next_partial" /\ ret.some /\ Len(data) > WIDTH
    /\ Remaining >= 1 /\ Remaining < WIDTH /\ ret.n = WIDTH - Remaining
    /\ arg.default = LaneDefault

\* C3 (as claimed): from every state with position < scalar_len, next_partial
\* returns a vector with missing = WIDTH - (scalar_len - position),
\* 0 <= missing < WIDTH, and sets position = scalar_len.
C3_PartialAlwaysReturns ==
    (op = "next_partial" /\ pre < Len(data))
        => /\ ~panicked
           /\ ret.some
           /\ ret.n = WIDTH - Remaining
           /\ 0 <= ret.n /\ ret.n < WIDTH
           /\ position = Len(data)

\* C4 (as claimed): 0 <= position <= data.len() in every reachable state.
C4_PositionInBounds == 0 <= position /\ position <= Len(data)

\* C5: every buffer index read by next_vector and next_partial lies in
\* [0, scalar_len), and next_vector loads only when position + WIDTH <=
\* scalar_len.
C5_ReadsInBounds ==
    (op \in {"next_vector", "next_partial"})
        => /\ \A i \in reads : 0 <= i /\ i < Len(data)
           /\ (op = "next_vector" /\ ret.some) => pre + WIDTH <= Len(data)

\* C5 witness: next_vector loaded the last full vector of the buffer, ending
\* exactly at scalar_len, from an advanced position.
C5_Witness ==
    /\ op = "next_vector" /\ ret.some /\ pre > 0
    /\ pre + WIDTH = Len(data)
    /\ reads = {pre + i : i \in Lanes}

\* C6: once next_partial has returned a value, every later call of
\* next_partial returns exhausted, does not panic and leaves position as it is.
C6_ExhaustionAbsorbing ==
    [][(tail_taken /\ op' = "next_partial")
         => (~ret'.some /\ ~panicked' /\ position' = position)]_vars

\* C6 witness: next_partial was called after the tail had been returned and
\* reported exhausted.
C6_Witness ==
    /\ tail_taken /\ op = "next_partial" /\ ~ret.some
    /\ Len(data) % WIDTH # 0 /\ position = Len(data)

\* C7: simd_for_each with the identity transform on a fresh mutable-borrow
\* cursor returns normally and leaves every buffer element unchanged.
C7_ForEachIdentity ==
    (op = "simd_for_each" /\ pre = 0 /\ arg.f = "id")
        => (~panicked /\ data = data0)

\* C7 witness: the in-place drain ran over a buffer with full vectors and a
\* tail, padded from a lane-distinct default, and the buffer is as before.
C7_Witness ==
    /\ op = "simd_for_each" /\ pre = 0 /\ arg.f = "id"
    /\ Len(data) > WIDTH /\ Len(data) % WIDTH # 0
    /\ arg.default = LaneDefault
    /\ Len(calls) > 1 /\ position = Len(data) /\ data = data0

\* C8 (as claimed): after simd_for_each(default, f) from position 0 every
\* buffer element holds f applied to its original value.
C8_ForEachWriteback ==
    (op = "simd_for_each" /\ pre = 0 /\ ~panicked)
        => \A i \in 1 .. Len(data0) : data[i] = applyScalar(arg.f, data0[i])

\* C9 (as claimed): for L >= WIDTH and into.len() >= L, simd_map_into leaves
\* into[i] = f(data[i]) for every i < L.
C9_MapIntoCorrect ==
    (op = "simd_map_into" /\ Len(data) >= WIDTH /\ arg.len >= Len(data))
        => /\ ~panicked
           /\ \A i \in 1 .. Len(data) : fill[i] = applyScalar(arg.f, data[i])

\* C10 (as claimed): for 1 <= L < WIDTH and into.len() >= L, simd_map_into
\* returns normally with into[i] = f(data[i]) for i < L and nothing else stored.
C10_MapIntoShort ==
    (op = "simd_map_into" /\ 1 <= Len(data) /\ Len(data) < WIDTH
        /\ arg.len >= Len(data))
        => /\ ~panicked
           /\ \A i \in 1 .. Len(data) : fill[i] = applyScalar(arg.f, data[i])
           /\ \A i \in (Len(data) + 1) .. Len(fill) : fill[i] = Unwritten

\* C11: a fresh cursor wrapped in simd_map(inner_default, f) and drained by
\* scalar_fill or scalar_collect gives out[i] = f(data[i]) for every i < L;
\* the adapter's next_partial returns the same missing count nr as the inner
\* tail, lanes below nr from the output default, the others f of the real
\* elements.
C11_MapDrain ==
    /\ (op \in {"map_scalar_fill", "map_scalar_collect"} /\ pre = 0)
         => /\ ~panicked
            /\ \A i \in 1 .. Len(data) : fill[i] = applyScalar(arg.f, data[i])
    /\ (op = "map_next_partial" /\ ret.some /\ Remaining >= 1
            /\ Remaining <= WIDTH)
         => /\ ret.n = WIDTH - Remaining
            /\ \A i \in Lanes :
                 Lane(ret.vec, i) =
                    IF i < ret.n THEN Lane(arg.default, i)
                    ELSE applyScalar(arg.f, At(data, pre + i - ret.n))

\* C11 witness: a buffer with full vectors and a tail was mapped with the
\* non-identity transform over a lane-distinct inner default and drained.
C11_Witness ==
    /\ op = "map_scalar_fill" /\ pre = 0 /\ arg.f = "inc"
    /\ arg.default = LaneDefault
    /\ Len(data) > WIDTH /\ Len(data) % WIDTH # 0
    /\ position = Len(data)
    /\ \A i \in 1 .. Len(data) : fill[i] = data[i] + 1

RECURSIVE LaneSumTo(_, _)
LaneSumTo(v, k) == IF k = 0 THEN 0 ELSE v[k] + LaneSumTo(v, k - 1)
LaneSum(v) == LaneSumTo(v, Len(v))
Constant(buf, c) == \A i \in 1 .. Len(buf) : buf[i] = c

\* C12: simd_reduce(start = splat(0), default = splat(0), lane-wise +) over a
\* fresh cursor on N copies of c returns normally a vector whose lanes sum to
\* N * c, func being called once per full vector and once for the tail.
C12_ReduceSum ==
    \A c \in Vals :
        (op = "simd_reduce" /\ pre = 0 /\ arg.default = VectorDefault
            /\ Constant(data, c))
        => /\ ~panicked
           /\ LaneSum(ret.vec) = Len(data) * c
           /\ Len(calls) = (Len(data) \div WIDTH)
                            + (IF Len(data) % WIDTH = 0 THEN 0 ELSE 1)

\* C12 witness: full vectors and a tail of a constant buffer were reduced.
C12_Witness ==
    /\ op = "simd_reduce" /\ pre = 0 /\ arg.default = VectorDefault
    /\ Len(data) > WIDTH /\ Len(data) % WIDTH # 0 /\ Constant(data, 2)
    /\ LaneSum(ret.vec) = 2 * Len(data)

\* C13 (as documented, at the model's width): reducing k full vectors and
\* half a vector of 2s with start and default splat(0), the last closure
\* call gets the real elements in the first half of the lanes and zeros in
\* the second half, and the result is 2k + 2 in the first half, 2k in the
\* second (8 lanes, 100 elements: [2,2,2,2,0,0,0,0] and
\* [26,26,26,26,24,24,24,24]).
C13_ReduceDocExample ==
    (op = "simd_reduce" /\ pre = 0 /\ arg.default = VectorDefault
        /\ Constant(data, 2) /\ WIDTH % 2 = 0 /\ Len(data) > WIDTH
        /\ Len(data) % WIDTH = WIDTH \div 2)
    => /\ calls[Len(calls)] =
            [i \in 1 .. WIDTH |-> IF i <= WIDTH \div 2 THEN 2 ELSE 0]
       /\ ret.vec =
            [i \in 1 .. WIDTH |->
                IF i <= WIDTH \div 2 THEN 2 * (Len(data) \div WIDTH) + 2
                ELSE 2 * (Len(data) \div WIDTH)]

\* C14: from the same cursor state scalar_collect and scalar_fill (into a
\* destination of length scalar_len or more) end at the same position, fail
\* or return alike, and hold the same drained scalars.
C14_CollectFillAgree ==
    (op = "scalar_collect")
    => \A len \in {Len(data), Len(data) + 1} :
         LET f == scalar_fill(pre, data, fresh(len), overflow_checks) IN
         /\ f.panic = panicked
         /\ f.position = position
         /\ \A i \in 1 .. (Len(data) - pre) : fill[i] = f.fill[i]

\* C14 witness: scalar_collect drained full vectors and a tail from an
\* advanced position.
C14_Witness ==
    /\ op = "scalar_collect" /\ pre > 0 /\ ~panicked
    /\ Len(data) - pre > WIDTH /\ (Len(data) - pre) % WIDTH # 0
    /\ position = Len(data)
    /\ \A i \in 1 .. (Len(data) - pre) : fill[i] = data[pre + i]

\* C16 (as claimed): after simd_do_each the iterator's position and backing
\* data are the same as before the call.
C16_DoEachKeepsIterator ==
    (op = "simd_do_each" /\ ~panicked) => (position = pre /\ data = data0)

FullVectorsLeft == IF pre + WIDTH <= Len(data) THEN (Len(data) - pre) \div WIDTH ELSE 0
UnrollWindowOk ==
    /\ ~panicked
    /\ ret.some =>
        /\ 0 < ret.n /\ ret.n <= arg.len /\ Len(ret.vec) = ret.n
        /\ \A j \in 1 .. ret.n :
             ret.vec[j] = [i \in 1 .. WIDTH |-> data[pre + (j - 1) * WIDTH + i]]
    /\ ~ret.some => (ret.n = 0 /\ FullVectorsLeft = 0)
    /\ position = pre + ret.n * WIDTH

\* C17 (as claimed): for every amt <= 8, a window holds the next count full
\* vectors in order, 0 < count <= amt; exhausted is returned only when the
\* cursor has no full vector left; the tail is never consumed.
C17_UnrollWindows ==
    (op = "unroll_next" /\ arg.len <= UnrollMax) => UnrollWindowOk

\* C17 (amended): the same for every amt with 1 <= amt <= 8; with amt = 0
\* next returns exhausted and consumes nothing.
C17_UnrollWindowsFromOne ==
    /\ (op = "unroll_next" /\ 1 <= arg.len /\ arg.len <= UnrollMax)
         => UnrollWindowOk
    /\ (op = "unroll_next" /\ arg.len = 0)
         => (~panicked /\ ~ret.some /\ position = pre)

\* C17 witness: a window of two vectors was returned where three were asked
\* for, the tail being left in the cursor.
C17_Witness ==
    /\ op = "unroll_next" /\ arg.len = 3 /\ ret.some /\ ret.n = 2
    /\ position = pre + 2 * WIDTH /\ position < Len(data)

\* C15 (as claimed): scalar_fill into a destination shorter than scalar_len
\* fails in every cursor state.
C15_FillShortFails ==
    (op = "scalar_fill" /\ arg.len < Len(data)) => panicked

\* C15 (amended): scalar_fill into a destination shorter than the number of
\* elements left in the cursor (scalar_len - position, at least one) fails.
C15_FillShorterThanRestFails ==
    (op = "scalar_fill" /\ Len(data) - pre >= 1 /\ arg.len < Len(data) - pre)
        => panicked

\* C15 witness: an advanced cursor with elements left was drained into a
\* destination too short for them, and the call failed.
C15_Witness ==
    /\ op = "scalar_fill" /\ pre > 0 /\ Len(data) - pre >= 1
    /\ arg.len < Len(data) - pre /\ panicked

C19_NoTailOnMultiples ==
    (op = "next_partial" /\ Len(data) % WIDTH = 0) => ~ret.some

\* C19 (amended): over a buffer whose length is a multiple of WIDTH
\* next_partial returns exhausted whenever it is called at a position that
\* is a multiple of WIDTH with no full vector left, as in every state
\* reached by next_vector calls alone once next_vector reports exhausted.
C19_NoTailAfterVectors ==
    (op = "next_partial" /\ Len(data) % WIDTH = 0 /\ pre % WIDTH = 0
        /\ pre + WIDTH > Len(data))
        => (~ret.some /\ ~panicked /\ position = pre)

\* C19 witness: all full vectors of a non-empty buffer were consumed and
\* next_partial reported exhausted.
C19_Witness ==
    /\ op = "next_partial" /\ Len(data) % WIDTH = 0 /\ Len(data) >= WIDTH
    /\ pre = Len(data) /\ ~ret.some /\ ~tail_taken

\* C20: scalar_fill from a cursor with r = scalar_len - position elements
\* left into a destination of length >= r returns normally and leaves every
\* destination element at index >= r as it was.
C20_FillFrame ==
    (op = "scalar_fill" /\ arg.len >= Len(data) - pre)
        => /\ ~panicked
           /\ \A i \in 1 .. Len(fill) :
                (i > Len(data) - pre) => fill[i] = Unwritten

\* C20 witness: an advanced cursor with a full vector and a tail left was
\* drained into a longer destination, whose elements past r are untouched.
C20_Witness ==
    /\ op = "scalar_fill" /\ pre > 0 /\ ~panicked
    /\ Len(data) - pre > WIDTH /\ (Len(data) - pre) % WIDTH # 0
    /\ arg.len > Len(data) - pre
    /\ \A i \in 1 .. Len(fill) : (i > Len(data) - pre) => fill[i] = Unwritten
    /\ \A i \in 1 .. (Len(data) - pre) : fill[i] = data[pre + i]

\* C21 (as claimed): simd_for_each called on a mutable-borrow cursor whose
\* position is already > 0 leaves every buffer element as it was before the
\* call.
C21_ForEachAdvancedKeepsData ==
    [][(op' = "simd_for_each" /\ position > 0 /\ ~panicked') => data' = data]_vars

\* C22: after any interleaving of scalar next() and next_vector() calls, a
\* next_partial call made when next_vector reports exhausted returns
\* normally, and the real elements delivered by all the calls, concatenated
\* in call order, are then exactly data[0..L].
C22_ExactlyOnce ==
    [][(op' = "next_partial" /\ ~tail_taken
            /\ ~next_vector(position, data).some)
        => (~panicked' /\ delivered' = data)]_vars

\* C22 witness: elements were taken by scalar next() and by next_vector, and
\* the tail delivered the rest.
C22_Witness ==
    /\ op = "next_partial" /\ ret.some /\ ~panicked
    /\ pre > WIDTH /\ pre % WIDTH # 0 /\ pre < Len(data)
    /\ pre + WIDTH > Len(data)
    /\ delivered = data

RECURSIVE NextYields(_, _)
NextYields(pos, dat) ==
    LET r == next(pos, dat) IN
    IF r.some THEN 1 + NextYields(r.position, dat) ELSE 0

\* C23 (as claimed): in every reachable state size_hint() returns normally
\* (r, Some(r)) where r = data.len() - position is the number of elements
\* that subsequent next() calls yield.
C23_SizeHintExact ==
    (op = "size_hint")
        => /\ ~panicked
           /\ ret.some
           /\ ret.n = NextYields(pre, data)
           /\ ret.val = ret.n
====
